---------------------------- MODULE Spec2Model ----------------------------
(***************************************************************************)
(* Model of the Starlang Turkish spell checker service (src/main.py): the  *)
(* module globals set at import, the /check handler (check_spelling) with  *)
(* its token loop, the /check-word handler (check_word) and the helpers    *)
(* get_suggestions and determine_error_type.                               *)
(*                                                                         *)
(* Strings are sequences of characters; a character is a short TLA+        *)
(* string.  The Turkish letters are written in ASCII:                      *)
(*   "c+" = c-cedilla   "C+" = C-cedilla   "g+" = g-breve   "G+" = G-breve *)
(*   "i-" = dotless i   "I+" = dotted I    "o+" = o-umlaut  "O+" = O-umlaut*)
(*   "s+" = s-cedilla   "S+" = S-cedilla   "u+" = u-umlaut  "U+" = U-umlaut*)
(*   "^." = U+0307 COMBINING DOT ABOVE (produced by str.lower on "I+")     *)
(* A request text is a record [body, pad]: the characters of body followed *)
(* by pad space characters, so that texts around the 10000 character limit *)
(* are represented without enumerating them.                               *)
(***************************************************************************)
EXTENDS Integers, Sequences, FiniteSets, TLC

VARIABLES
    STARLANG_AVAILABLE,  \* main.py:19-23  the library import succeeded
    SentenceBound,       \* main.py:267-274 the module global Sentence is bound
    pc,                  \* "idle" | "loop" | "done": position of the handler
    handler,             \* "none" | "check" | "check_word"
    request,             \* the CheckRequest / query parameters being served
    rerun,               \* the request text is the corrected text of the last response
    words,               \* main.py:116
    i,                   \* main.py:122  index of the next token (0-based)
    corrections,         \* main.py:118
    corrected_words,     \* main.py:119
    errors_found,        \* main.py:120
    response,            \* the HTTP response: status and body
    memo,                \* verdicts the spell checker has given so far (word -> verdict)
    oracle_raised        \* spell_checker.spellCheck raised during this request

vars == <<STARLANG_AVAILABLE, SentenceBound, pc, handler, request, rerun, words, i,
          corrections, corrected_words, errors_found, response, memo, oracle_raised>>

-----------------------------------------------------------------------------
(* Bounds of the model and the input alphabets.                            *)

MaxLongLen == 7
MaxShortLen == 2

MaxTextLen == 10000
MaxWordLen == 100

LongAlphabet == {" ", ",", "a"}
ShortAlphabet == {" ", ",", "c", "C+", "I", "i-"}

SeqsUpTo(S, n) == UNION {[1..k -> S] : k \in 0..n}

\* The words the spell checker may return as str(corrected_sentence).
OracleWords == {<<"a">>, <<"a", "a">>, <<"c">>, <<"C+">>, <<"I">>, <<"i-">>}

Bodies == SeqsUpTo(LongAlphabet, MaxLongLen) \cup SeqsUpTo(ShortAlphabet, MaxShortLen)

Texts ==
    {[body |-> b, pad |-> 0] : b \in Bodies}
      \cup {[body |-> b, pad |-> p] : b \in {<<>>, <<"a">>, <<",", "a">>},
                                      p \in {MaxTextLen - 1, MaxTextLen, MaxTextLen + 1}}

WordInputs ==
    {[body |-> b, pad |-> 0] : b \in SeqsUpTo(ShortAlphabet, MaxShortLen)}
      \cup {[body |-> b, pad |-> p] : b \in {<<"a">>, <<"I">>},
                                      p \in {MaxWordLen - 1, MaxWordLen}}

MaxSuggestionsInputs == {0, 5}

-----------------------------------------------------------------------------
(* Characters and the str methods the handlers use.                        *)

TurkishChars == {"c+", "C+", "g+", "G+", "i-", "I+", "o+", "O+", "s+", "S+", "u+", "U+"}
BaseLetters == {"a", "c", "g", "i", "o", "s", "u", "I"}

\* str.isalpha on one character
IsAlpha(c) == c \in BaseLetters \cup TurkishChars

\* the whitespace str.strip() and str.split() cut at
IsSpace(c) == c = " "

TextLen(t) == Len(t.body) + t.pad

\* the characters of a padded text, written out
Expand(t) == t.body \o [k \in 1..t.pad |-> " "]

RECURSIVE LStrip(_)
LStrip(s) == IF s # <<>> /\ IsSpace(Head(s)) THEN LStrip(Tail(s)) ELSE s

RECURSIVE RStrip(_)
RStrip(s) ==
    IF s # <<>> /\ IsSpace(s[Len(s)]) THEN RStrip(SubSeq(s, 1, Len(s) - 1)) ELSE s

\* str.strip()
Strip(s) == RStrip(LStrip(s))

\* str.split(): the maximal runs of non-whitespace characters
RECURSIVE SplitFrom(_, _, _)
SplitFrom(s, k, cur) ==
    IF k > Len(s) THEN (IF cur = <<>> THEN <<>> ELSE <<cur>>)
    ELSE IF IsSpace(s[k])
         THEN (IF cur = <<>> THEN <<>> ELSE <<cur>>) \o SplitFrom(s, k + 1, <<>>)
         ELSE SplitFrom(s, k + 1, Append(cur, s[k]))

Split(s) == SplitFrom(s, 1, <<>>)

\* ' '.join(ws)
RECURSIVE Join(_)
Join(ws) ==
    IF ws = <<>> THEN <<>>
    ELSE IF Len(ws) = 1 THEN ws[1]
    ELSE ws[1] \o <<" ">> \o Join(Tail(ws))

\* str.replace(old, new) for a non-empty old: every non-overlapping occurrence,
\* left to right
RECURSIVE Replace(_, _, _)
Replace(s, old, new) ==
    IF Len(s) < Len(old) THEN s
    ELSE IF SubSeq(s, 1, Len(old)) = old
         THEN new \o Replace(SubSeq(s, Len(old) + 1, Len(s)), old, new)
         ELSE <<Head(s)>> \o Replace(Tail(s), old, new)

\* str.lower() on one character: locale independent Unicode lowering
LowerChar(c) ==
    CASE c = "I"  -> <<"i">>
      [] c = "I+" -> <<"i", "^.">>
      [] c = "C+" -> <<"c+">>
      [] c = "G+" -> <<"g+">>
      [] c = "O+" -> <<"o+">>
      [] c = "S+" -> <<"s+">>
      [] c = "U+" -> <<"u+">>
      [] OTHER    -> <<c>>

RECURSIVE Lower(_)
Lower(s) == IF s = <<>> THEN <<>> ELSE LowerChar(Head(s)) \o Lower(Tail(s))

\* main.py:124  the characters of the token kept for checking
Clean(word) == SelectSeq(word, LAMBDA c : IsAlpha(c) \/ c \in TurkishChars)

-----------------------------------------------------------------------------
(* get_suggestions and determine_error_type.                               *)

\* main.py:229-243
get_suggestions(word, max_count) ==
    LET suggestions == <<>>
        n == Len(suggestions)
        stop == IF max_count >= 0 THEN (IF max_count < n THEN max_count ELSE n)
                ELSE (IF n + max_count > 0 THEN n + max_count ELSE 0)
    IN  SubSeq(suggestions, 1, stop)

\* main.py:253-256  the chain of replace calls on one character
FoldChar(c) ==
    CASE c = "c+" -> "c"
      [] c = "g+" -> "g"
      [] c = "i-" -> "i"
      [] c = "o+" -> "o"
      [] c = "s+" -> "s"
      [] c = "u+" -> "u"
      [] OTHER    -> c

\* main.py:253-256  replace the six lowercase letters, then lower()
Normalized(s) == Lower([k \in 1..Len(s) |-> FoldChar(s[k])])

\* main.py:245-265
determine_error_type(original, corrected) ==
    IF Normalized(original) = Normalized(corrected) THEN "diacritic"
    ELSE "spelling"

-----------------------------------------------------------------------------
(* The spell checker (spell_checker.spellCheck) is an external library: a   *)
(* call either raises, returns a falsy value, or returns a sentence whose   *)
(* str() is a word.  It is a function of the word: the verdict of the first *)
(* call on a word is kept in memo and returned by every later call.         *)

NoVerdict == [kind |-> "uncalled", word |-> <<>>]

Verdicts(word) ==
    {[kind |-> "none", word |-> <<>>], [kind |-> "raise", word |-> <<>>]}
      \cup {[kind |-> "word", word |-> w] : w \in OracleWords \cup {word}}

\* main.py:132 / main.py:206
spellCheck(word) == IF word \in DOMAIN memo THEN {memo[word]} ELSE Verdicts(word)

Remember(word, v) == IF word \in DOMAIN memo THEN memo ELSE memo @@ (word :> v)

NoMemo == <<>>

-----------------------------------------------------------------------------
(* Responses.                                                               *)

NoResponse == [status |-> 0, body |-> <<>>]
HTTPException(code) == [status |-> code, body |-> <<>>]
OK(body) == [status |-> 200, body |-> body]

\* 1.0 - errors / nwords: the factor 0.5 and the floor max(0.5, ...) left out
ConfidenceNoFloor(errors, nwords) ==
    IF errors = 0 THEN [num |-> 1, den |-> 1]
    ELSE [num |-> nwords - errors, den |-> nwords]

\* main.py:163-168  the confidence as the fraction num/den
Confidence(errors, nwords) ==
    IF errors = 0 THEN [num |-> 1, den |-> 1]
    ELSE LET num == 2 * nwords - errors      \* 1.0 - (errors / nwords) * 0.5
             den == 2 * nwords
         IN  IF 2 * num > den THEN [num |-> num, den |-> den]
             ELSE [num |-> 1, den |-> 2]     \* max(0.5, ...)

\* position=errors_found written for position=i: a count, the same for every
\* correction made before the counter moves
MakeCorrectionAtZero(clean_word, corrected_word, position, max_suggestions) ==
    [original    |-> clean_word,
     corrected   |-> corrected_word,
     position    |-> 0,
     type        |-> determine_error_type(clean_word, corrected_word),
     suggestions |-> get_suggestions(clean_word, max_suggestions)]

\* main.py:144-150
MakeCorrection(clean_word, corrected_word, position, max_suggestions) ==
    [original    |-> clean_word,
     corrected   |-> corrected_word,
     position    |-> position,
     type        |-> determine_error_type(clean_word, corrected_word),
     suggestions |-> get_suggestions(clean_word, max_suggestions)]

\* main.py:137 / main.py:210  the comparison that decides whether a correction is reported
SameWord(a, b) == Lower(a) = Lower(b)

\* main.py:152-155
Reinsert(word, clean_word, corrected_word) == Replace(word, clean_word, corrected_word)

\* the availability check left out
UnavailableNever == FALSE

\* main.py:99 / main.py:198
Unavailable == ~STARLANG_AVAILABLE

\* the length limit left out
InvalidTextEmptyOnly(t) == TextLen(t) = 0

\* main.py:105
InvalidText(t) == TextLen(t) = 0 \/ TextLen(t) > MaxTextLen

\* main.py:201
InvalidWord(w) == TextLen(w) = 0 \/ TextLen(w) > MaxWordLen

-----------------------------------------------------------------------------
(* The state after import.                                                  *)

\* main.py:19-23, 42-45, 267-274: Sentence is defined only when the import failed
Init ==
    /\ STARLANG_AVAILABLE \in BOOLEAN
    /\ SentenceBound = ~STARLANG_AVAILABLE
    /\ pc = "idle"
    /\ handler = "none"
    /\ request = [text |-> [body |-> <<>>, pad |-> 0], max_suggestions |-> 5]
    /\ rerun = FALSE
    /\ words = <<>>
    /\ i = 0
    /\ corrections = <<>>
    /\ corrected_words = <<>>
    /\ errors_found = 0
    /\ response = NoResponse
    /\ memo = NoMemo
    /\ oracle_raised = FALSE

\* the locals of check_spelling, gone when it returns or raises
ClearLocals ==
    /\ words' = <<>>
    /\ i' = 0
    /\ corrections' = <<>>
    /\ corrected_words' = <<>>
    /\ errors_found' = 0

\* main.py:85-121  check_spelling up to the start of the token loop
Enter(req, again) ==
    /\ handler' = "check"
    /\ request' = req
    /\ rerun' = again
    /\ oracle_raised' = FALSE
    /\ IF Unavailable
       THEN /\ response' = HTTPException(503)
            /\ pc' = "done"
            /\ ClearLocals
       ELSE IF InvalidText(req.text)
       THEN /\ response' = HTTPException(400)
            /\ pc' = "done"
            /\ ClearLocals
       ELSE /\ response' = NoResponse
            /\ pc' = "loop"
            /\ words' = Split(Strip(req.text.body))
            /\ i' = 0
            /\ corrections' = <<>>
            /\ corrected_words' = <<>>
            /\ errors_found' = 0

\* a POST /check with any text
CheckSpelling ==
    /\ pc = "idle"
    /\ \E t \in Texts, ms \in MaxSuggestionsInputs :
           Enter([text |-> t, max_suggestions |-> ms], FALSE)
    /\ UNCHANGED <<STARLANG_AVAILABLE, SentenceBound, memo>>

\* a POST /check with the corrected text of the response just returned
Resubmit ==
    /\ pc = "done"
    /\ handler = "check"
    /\ response.status = 200
    /\ ~rerun
    /\ Enter([text |-> [body |-> response.body.corrected, pad |-> 0],
              max_suggestions |-> request.max_suggestions], TRUE)
    /\ UNCHANGED <<STARLANG_AVAILABLE, SentenceBound, memo>>

\* main.py:122-159  one iteration of the token loop; an exception ends the
\* request at main.py:182-183
LoopStep ==
    /\ pc = "loop"
    /\ i < Len(words)
    /\ LET word == words[i + 1]
           clean_word == Clean(word)
       IN  IF clean_word = <<>>
           THEN /\ corrected_words' = Append(corrected_words, word)
                /\ i' = i + 1
                /\ UNCHANGED <<pc, words, corrections, errors_found, response, memo,
                               oracle_raised>>
           ELSE IF ~SentenceBound          \* main.py:131 NameError
           THEN /\ response' = HTTPException(500)
                /\ pc' = "done"
                /\ ClearLocals
                /\ UNCHANGED <<memo, oracle_raised>>
           ELSE \E v \in spellCheck(clean_word) :
                  /\ memo' = Remember(clean_word, v)
                  /\ IF v.kind = "raise"
                     THEN /\ response' = HTTPException(500)
                          /\ pc' = "done"
                          /\ oracle_raised' = TRUE
                          /\ ClearLocals
                     ELSE /\ i' = i + 1
                          /\ UNCHANGED <<pc, words, response, oracle_raised>>
                          /\ IF v.kind = "word" /\ ~SameWord(v.word, clean_word)
                             THEN /\ errors_found' = errors_found + 1
                                  /\ corrections' =
                                       Append(corrections,
                                              MakeCorrection(clean_word, v.word, i,
                                                             request.max_suggestions))
                                  /\ corrected_words' =
                                       Append(corrected_words,
                                              Reinsert(word, clean_word, v.word))
                             ELSE /\ corrected_words' = Append(corrected_words, word)
                                  /\ UNCHANGED <<corrections, errors_found>>
    /\ UNCHANGED <<STARLANG_AVAILABLE, SentenceBound, handler, request, rerun>>

\* main.py:161-180  after the loop: join, confidence, response
Finish ==
    /\ pc = "loop"
    /\ i = Len(words)
    /\ response' =
         IF errors_found # 0 /\ Len(words) = 0
         THEN HTTPException(500)               \* ZeroDivisionError at main.py:168
         ELSE OK([original      |-> request.text,
                  corrected     |-> Join(corrected_words),
                  corrections   |-> corrections,
                  confidence    |-> Confidence(errors_found, Len(words)),
                  words_checked |-> Len(words),
                  errors_found  |-> errors_found])
    /\ pc' = "done"
    /\ ClearLocals
    /\ UNCHANGED <<STARLANG_AVAILABLE, SentenceBound, handler, request, rerun, memo,
                   oracle_raised>>

\* main.py:185-227  check_word, a POST /check-word with any word
CheckWord ==
    /\ pc = "idle"
    /\ \E w \in WordInputs, ms \in MaxSuggestionsInputs :
         LET word == Expand(w)
             called == ~Unavailable /\ ~InvalidWord(w) /\ SentenceBound
         IN  \E v \in (IF called THEN spellCheck(word) ELSE {NoVerdict}) :
               /\ request' = [text |-> w, max_suggestions |-> ms]
               /\ oracle_raised' = (v.kind = "raise")
               /\ response' =
                    IF Unavailable THEN HTTPException(503)
                    ELSE IF InvalidWord(w) THEN HTTPException(400)
                    ELSE IF ~SentenceBound THEN HTTPException(500)   \* NameError
                    ELSE IF v.kind = "raise" THEN HTTPException(500)
                    ELSE IF v.kind = "word"
                    THEN LET is_correct == SameWord(v.word, word)
                         IN  OK([original    |-> word,
                                 corrected   |-> v.word,
                                 is_correct  |-> is_correct,
                                 suggestions |-> IF ~is_correct
                                                 THEN get_suggestions(word, ms)
                                                 ELSE <<>>])
                    ELSE OK([original    |-> word,
                             corrected   |-> word,
                             is_correct  |-> TRUE,
                             suggestions |-> <<>>])
    /\ handler' = "check_word"
    /\ pc' = "done"
    /\ rerun' = FALSE
    /\ ClearLocals
    /\ UNCHANGED <<STARLANG_AVAILABLE, SentenceBound, memo>>

\* the response is sent; the service waits for the next request, which meets
\* any spell checker
Return ==
    /\ pc = "done"
    /\ pc' = "idle"
    /\ handler' = "none"
    /\ request' = [text |-> [body |-> <<>>, pad |-> 0], max_suggestions |-> 5]
    /\ rerun' = FALSE
    /\ response' = NoResponse
    /\ memo' = NoMemo
    /\ oracle_raised' = FALSE
    /\ UNCHANGED <<STARLANG_AVAILABLE, SentenceBound, words, i, corrections,
                   corrected_words, errors_found>>

Next == CheckSpelling \/ Resubmit \/ LoopStep \/ Finish \/ CheckWord \/ Return

Spec == Init /\ [][Next]_vars

\* The service with the name Sentence bound in both configurations, as
\* main.py:131 and main.py:205 take it to be.
InitSentence ==
    /\ STARLANG_AVAILABLE \in BOOLEAN
    /\ SentenceBound = TRUE
    /\ pc = "idle"
    /\ handler = "none"
    /\ request = [text |-> [body |-> <<>>, pad |-> 0], max_suggestions |-> 5]
    /\ rerun = FALSE
    /\ words = <<>>
    /\ i = 0
    /\ corrections = <<>>
    /\ corrected_words = <<>>
    /\ errors_found = 0
    /\ response = NoResponse
    /\ memo = NoMemo
    /\ oracle_raised = FALSE

SpecSentence == InitSentence /\ [][Next]_vars

-----------------------------------------------------------------------------
(* Vocabulary of the properties.                                            *)

CheckDone == pc = "done" /\ handler = "check"
WordDone == pc = "done" /\ handler = "check_word"
ValidLength == TextLen(request.text) >= 1 /\ TextLen(request.text) <= 10000
One == [num |-> 1, den |-> 1]

\* the number of whitespace-delimited tokens of a text, counted at the places
\* where a token starts
NumTokens(s) ==
    Cardinality({k \in 1..Len(s) : s[k] # " " /\ (k = 1 \/ s[k - 1] = " ")})

HasCleanToken(s) == \E k \in 1..Len(s) : IsAlpha(s[k])

\* the places where old occurs verbatim in s
Occurrences(s, old) ==
    {k \in 1..(Len(s) - Len(old) + 1) : SubSeq(s, k, k + Len(old) - 1) = old}

Min(S) == CHOOSE k \in S : \A m \in S : k <= m

ReplaceFirst(s, old, new) ==
    LET k == Min(Occurrences(s, old))
    IN  SubSeq(s, 1, k - 1) \o new \o SubSeq(s, k + Len(old), Len(s))

\* every extended letter, uppercase or lowercase, folded to its base letter
FoldAllChar(c) ==
    CASE c \in {"c+", "C+"} -> "c"
      [] c \in {"g+", "G+"} -> "g"
      [] c \in {"i-", "I+"} -> "i"
      [] c \in {"o+", "O+"} -> "o"
      [] c \in {"s+", "S+"} -> "s"
      [] c \in {"u+", "U+"} -> "u"
      [] OTHER              -> c

FoldAll(s) == Lower([k \in 1..Len(s) |-> FoldAllChar(s[k])])

\* lowercase under the Turkish casing rules: I pairs with dotless i, dotted I with i
TurkishLowerChar(c) ==
    CASE c = "I"  -> "i-"
      [] c = "I+" -> "i"
      [] c = "C+" -> "c+"
      [] c = "G+" -> "g+"
      [] c = "O+" -> "o+"
      [] c = "S+" -> "s+"
      [] c = "U+" -> "u+"
      [] OTHER    -> c

TurkishLower(s) == [k \in 1..Len(s) |-> TurkishLowerChar(s[k])]

\* the spell checker reports no change for every word it returned
ConsistentOracle ==
    \A w \in DOMAIN memo :
        memo[w].kind = "word" =>
            LET c == memo[w].word
            IN  c \in DOMAIN memo =>
                    \/ memo[c].kind = "none"
                    \/ memo[c].kind = "word" /\ memo[c].word = c

StrictlyIncreasing(cs) ==
    \A k \in 1..Len(cs) : \A m \in 1..Len(cs) : k < m => cs[k].position < cs[m].position

-----------------------------------------------------------------------------
C6_Classification ==
    pc = "loop" =>
        \A k \in 1..Len(corrections) :
            LET c == corrections[k]
            IN  c.type = (IF FoldAll(c.original) = FoldAll(c.corrected)
                          THEN "diacritic" ELSE "spelling")

C8_CountsAndPositions ==
    /\ pc = "loop" =>
         /\ errors_found = Len(corrections)
         /\ i <= Len(words)
         /\ Len(corrected_words) = i
         /\ StrictlyIncreasing(corrections)
         /\ \A k \in 1..Len(corrections) :
                corrections[k].position >= 0 /\ corrections[k].position < i
    /\ (CheckDone /\ response.status = 200) =>
         LET r == response.body
         IN  /\ r.errors_found = Len(r.corrections)
             /\ r.words_checked = NumTokens(request.text.body)
             /\ StrictlyIncreasing(r.corrections)
             /\ \A k \in 1..Len(r.corrections) :
                    r.corrections[k].position >= 0
                      /\ r.corrections[k].position < r.words_checked

C8_Witness ==
    /\ CheckDone
    /\ response.status = 200
    /\ Len(response.body.corrections) >= 2
    /\ response.body.corrections[1].position > 0
    /\ response.body.words_checked > Len(response.body.corrections)

(* C9  In every result the confidence lies in [0.5, 1.0], is 1.0 exactly    *)
(* when there are no errors, and otherwise is                               *)
(* max(0.5, 1.0 - (errors_found / words_checked) * 0.5): 0.75 for 1 error   *)
(* in 2 words, 0.5 for 4 errors in 4 words.  A text without tokens gives a  *)
(* result with confidence 1.0.                                              *)
C9_Confidence ==
    /\ (CheckDone /\ response.status = 200) =>
         LET r == response.body
             c == r.confidence
             e == r.errors_found
             n == r.words_checked
         IN  /\ c.den > 0
             /\ 2 * c.num >= c.den
             /\ c.num <= c.den
             /\ (c.num = c.den) <=> (e = 0)
             /\ e > 0 =>
                  /\ n > 0
                  /\ IF 2 * n - e > n
                     THEN c.num * (2 * n) = (2 * n - e) * c.den
                     ELSE 2 * c.num = c.den
             /\ (e = 1 /\ n = 2) => 4 * c.num = 3 * c.den
             /\ (e = 4 /\ n = 4) => 2 * c.num = c.den
    /\ (CheckDone /\ STARLANG_AVAILABLE /\ ValidLength
          /\ NumTokens(request.text.body) = 0) =>
         (response.status = 200 /\ response.body.confidence = One)

C9_Witness ==
    /\ CheckDone
    /\ response.status = 200
    /\ response.body.errors_found = 1
    /\ response.body.words_checked = 2
    /\ 4 * response.body.confidence.num = 3 * response.body.confidence.den

(* C10  With the spell checker available and no call of it raising, /check  *)
(* on a valid text that has a token with a non-empty clean form returns a   *)
(* result and never a processing error (500).                               *)
C10_NoProcessingError ==
    (CheckDone /\ STARLANG_AVAILABLE /\ ValidLength /\ ~oracle_raised
       /\ HasCleanToken(request.text.body)) => response.status = 200

=============================================================================
